---- MODULE Spec2Model ----
(***************************************************************************)
(* A model of ripfs: an OCI registry served out of a content-addressed     *)
(* store (IPFS), the reference -> root-handle Name Map published through   *)
(* the store's naming primitive (IPNS), and the admission webhook that     *)
(* relocates pod images onto that registry.                                *)
(*                                                                         *)
(* A string is a sequence of tokens: "index.docker.io/library/alpine:latest"*)
(* is <<"index.docker.io", "/", "library", "/", "alpine", ":", "latest">>. *)
(* Parsing, naming and joining work on the tokens as the code works on the *)
(* characters, so two different strings stay different.                    *)
(***************************************************************************)
EXTENDS Integers, Sequences, FiniteSets, TLC

(***************************************************************************)
(* Bounds of the model.                                                    *)
(***************************************************************************)
MaxPeers == 1        \* connected peers the store may report: 0..MaxPeers
NumUpdaters == 2     \* `ripfs add` processes that may run updateCidMap at once
MaxUpdates == 2      \* updateCidMap runs started in one behaviour

Updaters == 1..NumUpdaters

(***************************************************************************)
(* Strings.                                                                *)
(***************************************************************************)
Slash == "/"
Colon == ":"
DefaultRegistry == "index.docker.io"
DefaultTag == "latest"
RegistryHost == "localhost:31609"

\* The tokens with a '.' or a ':' in them: what NewRepository takes for a
\* registry domain when it is the first part of a name.
RegistryDomains == {DefaultRegistry, RegistryHost}

\* Root handles AddImage may have returned (cid strings).
RootCids == {"c1", "c2"}

\* Tokens that are valid repository path components (lower case).
RepoComponents == {"alpine", "busybox", "temp", "library", "ipfs"} \cup RootCids

Tags == {DefaultTag}

IsRepository(s) ==
    /\ Len(s) >= 1
    /\ Len(s) % 2 = 1
    /\ \A i \in 1..Len(s) :
          IF i % 2 = 1 THEN s[i] \in RepoComponents ELSE s[i] = Slash

\* name.ParseReference restricted to tag references: the tag is what follows
\* the last ':' (default "latest"); the first part is the registry iff it
\* holds a '.' or ':' (default index.docker.io); the rest is the repository.
ParseReference(s) ==
    LET n == Len(s)
        tagged == n >= 3 /\ s[n - 1] = Colon
        base == IF tagged THEN SubSeq(s, 1, n - 2) ELSE s
        tag == IF tagged THEN s[n] ELSE DefaultTag
        hasReg == Len(base) >= 3 /\ base[2] = Slash /\ base[1] \in RegistryDomains
        registry == IF hasReg THEN base[1] ELSE DefaultRegistry
        repo == IF hasReg THEN SubSeq(base, 3, Len(base)) ELSE base
    IN  [ok |-> IsRepository(repo) /\ tag \in Tags,
         registry |-> registry, repo |-> repo, tag |-> tag]

\* Reference.Name(): registry "/" repository ":" tag, with the implicit
\* "library/" namespace of single-component repositories on the default
\* registry.
RefName(r) ==
    <<r.registry, Slash>>
      \o (IF r.registry = DefaultRegistry /\ Len(r.repo) = 1
          THEN <<"library", Slash>> ELSE <<>>)
      \o r.repo \o <<Colon, r.tag>>

\* path.Resolved.String() of a root handle: "/ipfs/<cid>".
PathString(c) == <<Slash, "ipfs", Slash, c>>

RECURSIVE SqueezeSlashes(_)
SqueezeSlashes(s) ==
    IF Len(s) <= 1 THEN s
    ELSE IF s[1] = Slash /\ s[2] = Slash THEN SqueezeSlashes(Tail(s))
    ELSE <<s[1]>> \o SqueezeSlashes(Tail(s))

\* path.Clean on strings without "." and ".." elements: runs of slashes
\* become one slash and a trailing slash is dropped.
CleanPath(s) ==
    LET q == SqueezeSlashes(s)
    IN  IF Len(q) > 1 /\ q[Len(q)] = Slash THEN SubSeq(q, 1, Len(q) - 1) ELSE q

\* path.Join of two elements: empty elements are ignored, the rest are
\* joined with a slash and cleaned.
PathJoin(a, b) ==
    IF a = <<>> THEN CleanPath(b)
    ELSE IF b = <<>> THEN CleanPath(a)
    ELSE CleanPath(a \o <<Slash>> \o b)

(***************************************************************************)
(* The Content Store: blobs by content identifier, and one naming key.     *)
(***************************************************************************)
\* The CID the store assigns on Add: content addressing, so equal bytes get
\* equal CIDs and different bytes different ones.
CidOf(blob) == [hash |-> blob]

\* json.Marshal of a map[string]string (keys are emitted sorted, so the
\* bytes and the map determine each other).
MarshalMap(m) == [json |-> m]

EmptyMap == <<>>

\* The name the node publishes under (IpnsEntry.Name() of its own key).
SelfName == "k51-self"


(***************************************************************************)
(* What `ripfs add` registers an image under: loadImagesFromRemote keys    *)
(* the image by ref.Name(), loadImagesFromTar by the literal "temp".       *)
(***************************************************************************)
RemoteRefs ==
    {<<"alpine">>, <<"busybox">>, <<RegistryHost, Slash, "ipfs", Slash, "c1">>}

\* The key the add command's loaders give an image: the name of the parsed
\* reference for a remote image, the title annotation of the index for an
\* OCI layout, the fixed string "temp" for a tarball.
ImageKey(kind, arg) ==
    IF kind = "remote" THEN RefName(ParseReference(arg))
    ELSE IF kind = "layout" THEN arg
    ELSE <<"temp">>

\* Title annotations of OCI layouts.
LayoutTitles == {<<"alpine">>}

AddInputs ==
    {<<"remote", r>> : r \in RemoteRefs}
        \cup {<<"layout", t>> : t \in LayoutTitles}
        \cup {<<"tar", <<>>>>}

UpdateRefs == {ImageKey(i[1], i[2]) : i \in AddInputs}

VARIABLES
    peers,      \* number of peers the store's swarm reports
    secret,     \* Data[ipns-cid] of the ripfs-cid-mapper secret: {} or {name}
    ipns,       \* what the naming key resolves to: {} or {cid}
    store,      \* the blobs added to the store
    upd,        \* per updateCidMap process: position and local variables
    runs,       \* updateCidMap runs started
    daemon,     \* the manager daemon's bootstrapper goroutine
    lastOp,     \* the last state-changing operation
    resolved,   \* the last Resolve call and what it returned
    adm,        \* the last admission request and its response
    ing,        \* the running or last AddImage: position, image, writers, table
    rd,         \* the last ReadBlob or ReadManifest call and its result
    srv         \* the serve command: Run's position, its goroutines, its context

vars ==
    <<peers, secret, ipns, store, upd, runs, daemon, lastOp, resolved, adm, ing, rd, srv>>

(***************************************************************************)
(* Store reads.                                                            *)
(***************************************************************************)
\* Name().Resolve of the name recorded in the secret (names: {} or {name}).
NameResolves(names) == SelfName \in names /\ ipns # {}
PublishedCid == CHOOSE c \in ipns : TRUE
StoreHas(c) == \E b \in store : CidOf(b) = c
StoreGet(c) == CHOOSE b \in store : CidOf(b) = c

\* The Name Map a reader gets by resolving the key and decoding the blob.
PublishedMap == StoreGet(PublishedCid).json

(***************************************************************************)
(* Naming Service: Resolve.                                                *)
(***************************************************************************)
ResolveFaults == {"none", "peers", "fetcher", "resolve", "get", "decode"}

\* Mutant of Peered: the readiness gate is missing.
PeeredAlways(fault) == TRUE

\* IpnsCidMapper.peered: false when the peer query fails or lists nobody.
Peered(fault) == fault # "peers" /\ peers > 0

FetchError(err, calls) == [ok |-> FALSE, map |-> EmptyMap, err |-> err, calls |-> calls]

\* IpnsCidMapper.fetch, with the collaborators it called.
MapperFetch(fault) ==
    IF ~Peered(fault)
    THEN FetchError("swarm not initialized yet, ipns cannot exist", {"Peers"})
    ELSE IF fault = "fetcher" \/ secret = {}
    THEN FetchError("fetching ipns cid", {"Peers", "Fetch"})
    ELSE IF fault = "resolve" \/ ~NameResolves(secret)
    THEN FetchError("name resolve", {"Peers", "Fetch", "NameResolve"})
    ELSE IF fault = "get" \/ ~StoreHas(PublishedCid)
    THEN FetchError("unixfs get", {"Peers", "Fetch", "NameResolve", "Get"})
    ELSE IF fault = "decode"
    THEN FetchError("json decode", {"Peers", "Fetch", "NameResolve", "Get"})
    ELSE [ok |-> TRUE, map |-> PublishedMap, err |-> "",
          calls |-> {"Peers", "Fetch", "NameResolve", "Get"}]

ResolveError(err, cause, calls) ==
    [ok |-> FALSE, value |-> <<>>, err |-> err, cause |-> cause, calls |-> calls]

\* IpnsCidMapper.Resolve.
Resolve(reference, fault) ==
    LET f == MapperFetch(fault)
        ref == ParseReference(reference)
    IN  IF ~f.ok THEN ResolveError("unable to retrieve cid mapper", f.err, f.calls)
        ELSE IF ~ref.ok THEN ResolveError("parse reference", "", f.calls)
        ELSE IF RefName(ref) \notin DOMAIN f.map
        THEN ResolveError("cid does not exist for reference", "", f.calls)
        ELSE [ok |-> TRUE, value |-> f.map[RefName(ref)], err |-> "", cause |-> "",
              calls |-> f.calls]

(***************************************************************************)
(* Admission Mutator (podRelocatorHandler).                                *)
(***************************************************************************)
\* h.registry: the manager's --registry flag.
Registry == <<RegistryHost>>

\* prefixIpfsRegistry: path.Join(h.registry, cid).
PrefixIpfsRegistry(cid) == PathJoin(Registry, cid)

\* Mutant of Relocate: the loop ends at the first image that does not resolve
\* (break for continue).
RelocateBreak(images, flts) ==
    [i \in 1..Len(images) |->
        IF \A k \in 1..i : Resolve(images[k], flts[k]).ok
        THEN PrefixIpfsRegistry(Resolve(images[i], flts[i]).value)
        ELSE images[i]]

\* One loop of Handle over a list of containers: the image of each after it.
Relocate(images, flts) ==
    [i \in 1..Len(images) |->
        LET r == Resolve(images[i], flts[i])
        IN  IF r.ok THEN PrefixIpfsRegistry(r.value) ELSE images[i]]

\* The keys of Handle's `changed` map: the images Resolve found a cid for.
Changed(pod, flts) ==
    {pod.init[i] : i \in {k \in 1..Len(pod.init) : Resolve(pod.init[k], flts.init[k]).ok}}
      \cup
    {pod.ctrs[i] : i \in {k \in 1..Len(pod.ctrs) : Resolve(pod.ctrs[k], flts.ctrs[k]).ok}}

\* admission.Errored(code, err)
Errored(code) ==
    [allowed |-> FALSE, code |-> code, reason |-> "", patchType |-> "", patches |-> {}]

\* admission.Allowed(reason)
Allowed(reason) ==
    [allowed |-> TRUE, code |-> 200, reason |-> reason, patchType |-> "", patches |-> {}]

\* The JSON patch between two pods that differ at most in image fields: one
\* replace operation per field whose value differs.
ImagePatches(list, old, new) ==
    {[op |-> "replace", path |-> <<"spec", list, i - 1, "image">>, value |-> new[i]] :
        i \in {k \in 1..Len(old) : old[k] # new[k]}}

\* admission.PatchResponseFromRaw(original, current): allowed, with the JSON
\* patch from the request's object to the mutated pod; the patch type is set
\* only when the patch is not empty.
PatchResponseFromRaw(orig, cur) ==
    LET patches == ImagePatches("initContainers", orig.init, cur.init)
                     \cup ImagePatches("containers", orig.ctrs, cur.ctrs)
    IN  [allowed |-> TRUE, code |-> 200, reason |-> "",
         patchType |-> IF patches = {} THEN "" ELSE "JSONPatch",
         patches |-> patches]

\* Mutant of HandlePod: a patch only when more than one image resolved.
HandlePodOffByOne(pod, flts) ==
    LET out == [init |-> Relocate(pod.init, flts.init),
                ctrs |-> Relocate(pod.ctrs, flts.ctrs)]
    IN  [out |-> out,
         resp |-> IF Cardinality(Changed(pod, flts)) > 1
                  THEN PatchResponseFromRaw(pod, out)
                  ELSE Allowed("no image resolutions found")]

\* Mutant of HandlePod: a Resolve error fails the request.
HandlePodFailOnMiss(pod, flts) ==
    LET out == [init |-> Relocate(pod.init, flts.init),
                ctrs |-> Relocate(pod.ctrs, flts.ctrs)]
        miss == \/ \E i \in 1..Len(pod.init) : ~Resolve(pod.init[i], flts.init[i]).ok
                \/ \E i \in 1..Len(pod.ctrs) : ~Resolve(pod.ctrs[i], flts.ctrs[i]).ok
    IN  [out |-> out,
         resp |-> IF miss THEN Errored(500)
                  ELSE IF Cardinality(Changed(pod, flts)) > 0
                  THEN PatchResponseFromRaw(pod, out)
                  ELSE Allowed("no image resolutions found")]

\* Handle, after the request decoded into pod: the mutated pod and the response.
HandlePod(pod, flts) ==
    LET out == [init |-> Relocate(pod.init, flts.init),
                ctrs |-> Relocate(pod.ctrs, flts.ctrs)]
    IN  [out |-> out,
         resp |-> IF Cardinality(Changed(pod, flts)) > 0
                  THEN PatchResponseFromRaw(pod, out)
                  ELSE Allowed("no image resolutions found")]

NoPod == [init |-> <<>>, ctrs |-> <<>>]

NoAdmission ==
    [handled |-> FALSE, decodes |-> FALSE, pod |-> NoPod, flts |-> NoPod,
     res |-> NoPod, out |-> NoPod, resp |-> Allowed("")]

NoResolve == [called |-> FALSE, ref |-> <<>>, fault |-> "none", res |-> ResolveError("", "", {})]

(***************************************************************************)
(* Naming Service: Update (updateCidMap of `ripfs add`).                   *)
(***************************************************************************)
Active(u) == upd[u].pc \in {"fetched", "added"}

\* lastOp after anything but a completed Update.
OtherOp ==
    [kind |-> "other", u |-> 0, ref |-> <<>>, cid |-> "", base |-> EmptyMap,
     solo |-> FALSE, lost |-> {}]

IdleUpdater ==
    [pc |-> "idle", ref |-> <<>>, cid |-> "", base |-> EmptyMap, conc |-> FALSE, beat |-> {}]

\* cidMap[ref] = op.String()
Insert(m, ref, cid) ==
    [k \in DOMAIN m \cup {ref} |-> IF k = ref THEN PathString(cid) ELSE m[k]]

\* A blob that holds the entry of the Update alone.
EntryOnlyBlob(u) == MarshalMap(Insert(EmptyMap, upd[u].ref, upd[u].cid))

\* Mutant of NewMapBlob: the map is read again when it is written, as under
\* a lock held from the read to the publish.
MergedMapBlob(u) ==
    MarshalMap(Insert(StoreGet(CHOOSE c \in ipns : TRUE).json, upd[u].ref, upd[u].cid))

\* The blob updateCidMap adds and publishes: the map it read, with its entry.
NewMapBlob(u) == MarshalMap(Insert(upd[u].base, upd[u].ref, upd[u].cid))

CanStart(u) == upd[u].pc \in {"idle", "done", "failed"} /\ runs < MaxUpdates

\* Lines 527-559: read the key from the secret, resolve it, get and decode the
\* blob, insert the entry into the local map.
UpdateFetch(u) ==
    /\ CanStart(u)
    /\ secret # {} /\ NameResolves(secret) /\ StoreHas(PublishedCid)
    /\ \E i \in AddInputs, cid \in RootCids :
          upd' = [v \in Updaters |->
                    IF v = u
                    THEN [pc |-> "fetched", ref |-> ImageKey(i[1], i[2]), cid |-> cid,
                          base |-> PublishedMap,
                          conc |-> \E w \in Updaters \ {u} : Active(w),
                          beat |-> {}]
                    ELSE IF Active(v) THEN [upd[v] EXCEPT !.conc = TRUE]
                    ELSE upd[v]]
    /\ runs' = runs + 1
    /\ lastOp' = OtherOp
    /\ UNCHANGED <<srv, ing, rd, peers, secret, ipns, store, daemon>>
    /\ resolved' = NoResolve /\ adm' = NoAdmission

\* Lines 532-541: no key in the secret, or the key does not resolve:
\* updateCidMap(ref, op) returns an error.
UpdateFetchNoMap(u) ==
    /\ CanStart(u)
    /\ secret = {} \/ ~NameResolves(secret)
    /\ upd' = [upd EXCEPT ![u] = [IdleUpdater EXCEPT !.pc = "failed"]]
    /\ runs' = runs + 1
    /\ \E i \in AddInputs, cid \in RootCids :
          lastOp' = [OtherOp EXCEPT !.kind = "updateNoMap", !.u = u,
                                    !.ref = ImageKey(i[1], i[2]), !.cid = cid]
    /\ UNCHANGED <<srv, ing, rd, peers, secret, ipns, store, daemon>>
    /\ resolved' = NoResolve /\ adm' = NoAdmission

\* A cluster or store call of updateCidMap fails: it returns the error.
UpdateFail(u) ==
    /\ Active(u)
    /\ upd' = [upd EXCEPT ![u] = [IdleUpdater EXCEPT !.pc = "failed"]]
    /\ lastOp' = OtherOp
    /\ UNCHANGED <<srv, ing, rd, peers, secret, ipns, store, runs, daemon>>
    /\ resolved' = NoResolve /\ adm' = NoAdmission

\* Lines 561-572: marshal the map and add it to the store, pinned.
UpdateAdd(u) ==
    /\ upd[u].pc = "fetched"
    /\ store' = store \cup {NewMapBlob(u)}
    /\ upd' = [upd EXCEPT ![u].pc = "added"]
    /\ lastOp' = OtherOp
    /\ UNCHANGED <<srv, ing, rd, peers, secret, ipns, runs, daemon>>
    /\ resolved' = NoResolve /\ adm' = NoAdmission

\* Lines 574-582: publish the added blob under the node's key (AllowOffline:
\* whatever the number of peers).
UpdatePublish(u) ==
    /\ upd[u].pc = "added"
    /\ ipns' = {CidOf(NewMapBlob(u))}
    /\ upd' = [v \in Updaters |->
                 IF v = u THEN [IdleUpdater EXCEPT !.pc = "done"]
                 ELSE IF Active(v)
                 THEN [upd[v] EXCEPT !.beat = @ \cup {[ref |-> upd[u].ref, cid |-> upd[u].cid]}]
                 ELSE upd[v]]
    /\ lastOp' = [kind |-> "update", u |-> u, ref |-> upd[u].ref, cid |-> upd[u].cid,
                  base |-> upd[u].base, solo |-> ~upd[u].conc, lost |-> upd[u].beat]
    /\ UNCHANGED <<srv, ing, rd, peers, secret, store, runs, daemon>>
    /\ resolved' = NoResolve /\ adm' = NoAdmission

(***************************************************************************)
(* Bootstrap: the reconciler of the ripfs-cid-mapper secret and the        *)
(* manager daemon's bootstrapper goroutine.                                *)
(***************************************************************************)
EmptyMapBlob == MarshalMap(EmptyMap)

\* reconcileCidMapper, no peers: requeue, nothing written.
ReconcileNotReady ==
    /\ peers = 0
    /\ UNCHANGED vars

\* reconcileCidMapper, the key is recorded already: nothing to do.
ReconcileHasKey ==
    /\ peers > 0
    /\ secret # {}
    /\ UNCHANGED vars

\* Mutant of ReconcileCreate: the number of peers is not looked at.
ReconcileCreateUngated ==
    /\ secret = {}
    /\ store' = store \cup {MarshalMap(EmptyMap)}
    /\ ipns' = {CidOf(MarshalMap(EmptyMap))}
    /\ secret' = {SelfName}
    /\ lastOp' = OtherOp
    /\ UNCHANGED <<srv, ing, rd, peers, upd, runs, daemon>>
    /\ resolved' = NoResolve /\ adm' = NoAdmission

\* reconcileCidMapper, peered and no key: add `{}`, publish it, record the name.
ReconcileCreate ==
    /\ peers > 0
    /\ secret = {}
    /\ store' = store \cup {EmptyMapBlob}
    /\ ipns' = {CidOf(EmptyMapBlob)}
    /\ secret' = {SelfName}
    /\ lastOp' = OtherOp
    /\ UNCHANGED <<srv, ing, rd, peers, upd, runs, daemon>>
    /\ resolved' = NoResolve /\ adm' = NoAdmission

\* reconcileCidMapper, the final r.Update of the secret fails: the empty map
\* is published and the key is not recorded.
ReconcileUpdateFails ==
    /\ peers > 0
    /\ secret = {}
    /\ store' = store \cup {EmptyMapBlob}
    /\ ipns' = {CidOf(EmptyMapBlob)}
    /\ lastOp' = OtherOp
    /\ UNCHANGED <<srv, ing, rd, peers, secret, upd, runs, daemon>>
    /\ resolved' = NoResolve /\ adm' = NoAdmission

\* Daemon.Start's bootstrapper goroutine: once peers show up it runs
\* createMapper (add `{}`, publish it) and ends.
DaemonCreateMapper ==
    /\ daemon = "waiting"
    /\ peers > 0
    /\ daemon' = "done"
    /\ store' = store \cup {EmptyMapBlob}
    /\ ipns' = {CidOf(EmptyMapBlob)}
    /\ lastOp' = OtherOp
    /\ UNCHANGED <<srv, ing, rd, peers, secret, upd, runs>>
    /\ resolved' = NoResolve /\ adm' = NoAdmission

\* The swarm gains or loses peers.
PeersChange ==
    /\ \E n \in 0..MaxPeers : n # peers /\ peers' = n
    /\ lastOp' = OtherOp
    /\ UNCHANGED <<srv, ing, rd, secret, ipns, store, upd, runs, daemon>>
    /\ resolved' = NoResolve /\ adm' = NoAdmission

(***************************************************************************)
(* Clients of the Naming Service: a Resolve call, an admission request.    *)
(***************************************************************************)
MaxContainers == 2   \* containers and init containers of a pod, together

\* The image strings of pods: a short name, the tarball key, and an image
\* already relocated to the registry.
Relocated == <<RegistryHost, Slash, "ipfs", Slash, "c1">>

PodImages == {<<"alpine">>, <<"temp">>, Relocated}

\* References clients ask for.
ImageStrings == PodImages \cup {<<"UPPER">>}

HandleFaults == {"none", "get", "decode"}

SeqsOf(S, n) == [1..n -> S]

\* Pods have at least one container.
PodShapes ==
    {sh \in (0..MaxContainers) \X (1..MaxContainers) : sh[1] + sh[2] <= MaxContainers}

Idle == resolved = NoResolve /\ adm = NoAdmission

\* IpnsCidMapper.Resolve called by some client.
ResolveCall ==
    /\ Idle
    /\ \E ref \in ImageStrings \cup UpdateRefs, fault \in ResolveFaults :
          resolved' = [called |-> TRUE, ref |-> ref, fault |-> fault,
                       res |-> Resolve(ref, fault)]
    /\ UNCHANGED <<srv, ing, rd, peers, secret, ipns, store, upd, runs, daemon, lastOp, adm>>

\* Handle, the request's object does not decode into a pod: 400.
HandleUndecodable ==
    /\ Idle
    /\ adm' = [NoAdmission EXCEPT !.handled = TRUE, !.resp = Errored(400)]
    /\ UNCHANGED <<srv, ing, rd, peers, secret, ipns, store, upd, runs, daemon, lastOp, resolved>>

\* Handle of a pod create/update request.
Handle ==
    /\ Idle
    /\ \E sh \in PodShapes :
       \E pi \in SeqsOf(PodImages, sh[1]), pc \in SeqsOf(PodImages, sh[2]),
          fi \in SeqsOf(HandleFaults, sh[1]), fc \in SeqsOf(HandleFaults, sh[2]) :
          LET pod == [init |-> pi, ctrs |-> pc]
              flts == [init |-> fi, ctrs |-> fc]
              h == HandlePod(pod, flts)
          IN  adm' = [handled |-> TRUE, decodes |-> TRUE, pod |-> pod, flts |-> flts,
                      res |-> [init |-> [i \in 1..sh[1] |-> Resolve(pi[i], fi[i])],
                               ctrs |-> [i \in 1..sh[2] |-> Resolve(pc[i], fc[i])]],
                      out |-> h.out, resp |-> h.resp]
    /\ UNCHANGED <<srv, ing, rd, peers, secret, ipns, store, upd, runs, daemon, lastOp, resolved>>

\* The client takes its answer.
ClientReturn ==
    /\ ~Idle
    /\ resolved' = NoResolve /\ adm' = NoAdmission
    /\ UNCHANGED <<srv, ing, rd, peers, secret, ipns, store, upd, runs, daemon, lastOp>>

(***************************************************************************)
(* Images and the records AddImage writes.  A blob of raw bytes is          *)
(* [raw |-> bytes]; a blob holding a JSON object is [obj |-> object], an    *)
(* absent JSON field being an absent record field.  A digest is the SHA-256 *)
(* of a blob, [sha256 |-> blob].  The size fields of the descriptors are    *)
(* left out: no operation reads them.                                       *)
(***************************************************************************)
MaxLayers == 3       \* layers of an ingested image: 0..MaxLayers
MaxIngests == 2      \* AddImage calls on one image in one behaviour

IPFSSchema == "ipfs://"
OCIImageIndex == "application/vnd.oci.image.index.v1+json"

Flavours == {"oci", "docker"}
LayerData == {"A", "B"}

ManifestMediaType(fl) ==
    IF fl = "oci" THEN "application/vnd.oci.image.manifest.v1+json"
    ELSE "application/vnd.docker.distribution.manifest.v2+json"

ConfigMediaType(fl) ==
    IF fl = "oci" THEN "application/vnd.oci.image.config.v1+json"
    ELSE "application/vnd.docker.container.image.v1+json"

LayerMediaType(fl) ==
    IF fl = "oci" THEN "application/vnd.oci.image.layer.v1.tar+gzip"
    ELSE "application/vnd.docker.image.rootfs.diff.tar.gzip"

\* A locator of another scheme, as a manifest with foreign layers carries.
ForeignUrl == <<"https://", [host |-> "mirror"]>>

\* The urls the descriptors of an input manifest come with: none, or, in
\* the Docker flavour, one of another scheme.
InputUrls == {<< >>, <<ForeignUrl>>}

\* v1.Image values AddImage is given: a flavour, the layers' compressed
\* bytes, in manifest order, and the urls of the manifest's descriptors.
Images ==
    {i \in [flavour : Flavours,
            layers : UNION {SeqsOf(LayerData, n) : n \in 0..MaxLayers},
            urls : InputUrls] :
        i.urls # << >> => i.flavour = "docker"}

\* v1.SHA256 / layer.Digest()
SHA256(blob) == [sha256 |-> blob]

\* layer.Compressed(), as the store keeps it
LayerBlob(data) == [raw |-> data]

\* img.RawConfigFile(): a JSON object that names the layers' contents
ConfigBlob(i) ==
    [obj |-> [architecture |-> "amd64", os |-> i.flavour, rootfs |-> i.layers]]

\* json.Marshal of an object, as the store keeps it
MarshalObj(o) == [obj |-> o]

\* v1.Descriptor: urls is omitted when empty (json omitempty)
Descriptor(mt, d, urls) ==
    IF urls = << >> THEN [mediaType |-> mt, digest |-> d]
    ELSE [mediaType |-> mt, digest |-> d, urls |-> urls]

\* img.Manifest()
Manifest(i) ==
    [schemaVersion |-> 2,
     mediaType |-> ManifestMediaType(i.flavour),
     config |-> Descriptor(ConfigMediaType(i.flavour), SHA256(ConfigBlob(i)), i.urls),
     layers |-> [k \in 1..Len(i.layers) |->
                    Descriptor(LayerMediaType(i.flavour),
                               SHA256(LayerBlob(i.layers[k])), i.urls)]]

\* IPFSSchema + cid.String()
IpfsUrl(c) == <<IPFSSchema, c>>

\* Mutant of WithURLs: the locators are appended to those the descriptor has.
AppendURLs(desc, urls) ==
    [mediaType |-> desc.mediaType, digest |-> desc.digest,
     urls |-> (IF "urls" \in DOMAIN desc THEN desc.urls ELSE << >>) \o urls]

\* descriptor.URLs = []string{...}
WithURLs(desc, urls) ==
    [mediaType |-> desc.mediaType, digest |-> desc.digest, urls |-> urls]

\* cidMap[d] = c on the digest-to-CID table
Put(m, d, c) == [k \in DOMAIN m \cup {d} |-> IF k = d THEN c ELSE m[k]]

\* Mutant of DeepCopy: the copy shares the descriptors of the original.
ShallowCopy(m) == [m |-> m, alias |-> TRUE]

\* m.DeepCopy(): an object of its own with the fields of m.
DeepCopy(m) == [m |-> m, alias |-> FALSE]

\* The layers convertIpfs has reached when it returns: all of them, or those
\* before the first whose digest is not in the table.
Missing(m, cids) == {k \in 1..Len(m.layers) : m.layers[k].digest \notin DOMAIN cids}
Reached(m, cids) == {k \in 1..Len(m.layers) : \A j \in Missing(m, cids) : k < j}

\* The assignments of convertIpfs to n.Config.URLs and n.Layers[i].URLs, up to
\* the point it returns.
Decorated(m, cids) ==
    IF m.config.digest \notin DOMAIN cids THEN m
    ELSE [schemaVersion |-> m.schemaVersion,
          mediaType |-> m.mediaType,
          config |-> WithURLs(m.config, <<IpfsUrl(cids[m.config.digest])>>),
          layers |-> [k \in 1..Len(m.layers) |->
                        IF k \in Reached(m, cids)
                        THEN WithURLs(m.layers[k], <<IpfsUrl(cids[m.layers[k].digest])>>)
                        ELSE m.layers[k]]]

\* An error of AddImage: what failed and the digests its message names.
IngestError(msg, ds) == [msg |-> msg, ds |-> ds]
NoIngestError == IngestError("", {})

\* The error of convertIpfs: it names the config descriptor's digest, or
\* that of the first layer descriptor the table lacks.
ConvertError(m, cids) ==
    IF m.config.digest \notin DOMAIN cids
    THEN IngestError("config descriptor not found", {m.config.digest})
    ELSE IF Missing(m, cids) # {}
    THEN IngestError("layer descriptor not found",
                     {m.layers[k].digest : k \in {j \in Missing(m, cids) :
                                                    \A i \in Missing(m, cids) : j <= i}})
    ELSE NoIngestError

\* Mutant of ConvertIpfsCopy: descriptors the table lacks are left as they
\* are.
ConvertIpfsLenient(n, m, cids) ==
    [ok |-> TRUE, m |-> Decorated(n.m, cids), caller |-> m, err |-> NoIngestError]

\* convertIpfs on the copy n of m: whether it succeeds, the manifest it
\* returns, the caller's manifest as the call leaves it, and its error.
ConvertIpfsCopy(n, m, cids) ==
    [ok |-> m.config.digest \in DOMAIN cids /\ Missing(m, cids) = {},
     m |-> Decorated(n.m, cids),
     caller |-> IF n.alias THEN Decorated(n.m, cids) ELSE m,
     err |-> ConvertError(m, cids)]

\* convertIpfs
ConvertIpfs(m, cids) == ConvertIpfsCopy(DeepCopy(m), m, cids)

\* idx of AddImage: the wrapping index over the decorated manifest
IndexOf(m) ==
    [schemaVersion |-> 2,
     mediaType |-> OCIImageIndex,
     manifests |-> <<[mediaType |-> m.mediaType,
                      digest |-> SHA256(MarshalObj(m)),
                      urls |-> <<IpfsUrl(CidOf(MarshalObj(m)))>>]>>]

\* Mutant of WrapperOf: the outer wrapper points at the manifest.
WrapperOfManifest(idx) ==
    [mediaType |-> idx.manifests[1].mediaType,
     digest |-> idx.manifests[1].digest,
     urls |-> IF "urls" \in DOMAIN idx.manifests[1] THEN idx.manifests[1].urls
              ELSE << >>]

\* ipfsIdx of AddImage: the outer wrapper, whose CID is the root handle
WrapperOf(idx) ==
    [mediaType |-> OCIImageIndex,
     digest |-> SHA256(MarshalObj(idx)),
     urls |-> <<IpfsUrl(CidOf(MarshalObj(idx)))>>]

NoImage == [flavour |-> "", layers |-> <<>>, urls |-> <<>>]

\* What an earlier AddImage of the same caller returned.
NoPrev == [root |-> {}, cidMap |-> <<>>]

\* No record of the graph under ing.root was written by another writer.
NoCraft == [pos |-> "", kind |-> ""]

\* manifest is the object img.Manifest() gave the call, as the caller holds it.
IdleIngest ==
    [pc |-> "idle", img |-> NoImage, wpc |-> <<>>, cidMap |-> <<>>, root |-> {},
     raced |-> FALSE, n |-> 0, prev |-> NoPrev, manifest |-> Manifest(NoImage),
     craft |-> NoCraft, err |-> NoIngestError]

AddFaults == {"none", "config", "manifest", "index", "wrapper"}

\* Mutant of IngestFailed: the blobs written are removed.
IngestRolledBack(st, cids, err) ==
    [pc |-> "failed", store |-> {}, cidMap |-> cids, root |-> {}, err |-> err]

\* AddImage returns an error: no root handle; the store stays as it is.
IngestFailed(st, cids, err) ==
    [pc |-> "failed", store |-> st, cidMap |-> cids, root |-> {}, err |-> err]

\* The error of a store Add that is refused.
AddError == IngestError("add", {})

\* AddImage, lines 97-98: the outer wrapper is written and its CID returned.
AddImageWrapper(wblob, cids, st, fault) ==
    IF fault = "wrapper" THEN IngestFailed(st, cids, AddError)
    ELSE [pc |-> "done", store |-> st \cup {wblob}, cidMap |-> cids,
          root |-> {CidOf(wblob)}, err |-> NoIngestError]

\* Mutant of AddImageIndex: the outer wrapper is written before the index.
AddImageWrapperFirst(idx, cids, st, fault) ==
    IF fault = "index"
    THEN IngestFailed(st \cup {MarshalObj(WrapperOf(idx))}, cids, AddError)
    ELSE AddImageWrapper(MarshalObj(WrapperOf(idx)), cids, st \cup {MarshalObj(idx)}, fault)

\* AddImage, lines 84-95: the wrapping index is written.
AddImageIndex(idx, cids, st, fault) ==
    IF fault = "index" THEN IngestFailed(st, cids, AddError)
    ELSE AddImageWrapper(MarshalObj(WrapperOf(idx)), cids, st \cup {MarshalObj(idx)}, fault)

\* AddImage, lines 60-82: the decorated manifest is written.
AddImageManifest(conv, cids, st, fault) ==
    IF ~conv.ok THEN IngestFailed(st, cids, conv.err)
    ELSE IF fault = "manifest" THEN IngestFailed(st, cids, AddError)
    ELSE AddImageIndex(IndexOf(conv.m), cids, st \cup {MarshalObj(conv.m)}, fault)

\* AddImage, lines 43-60: the config is written and entered in the table.
AddImageConfig(m, cfg, cids0, st, fault) ==
    IF fault = "config" THEN IngestFailed(st, cids0, AddError)
    ELSE AddImageManifest(ConvertIpfs(m, Put(cids0, m.config.digest, CidOf(cfg))),
                          Put(cids0, m.config.digest, CidOf(cfg)), st \cup {cfg}, fault)

\* AddImage from the join of the layer writers on: the position it ends in,
\* the store it leaves and the root handle it returns.  fault names the
\* store Add that fails, if one does.
AddImageTail(i, cids0, st, fault) ==
    AddImageConfig(Manifest(i), ConfigBlob(i), cids0, st, fault)

\* The caller's manifest when AddImage returns: convertIpfs is reached unless
\* the config could not be added.
CallerManifest(m, cfg, cids0, fault) ==
    IF fault = "config" THEN m
    ELSE ConvertIpfs(m, Put(cids0, m.config.digest, CidOf(cfg))).caller

namingVars == <<peers, secret, ipns, upd, runs, daemon, lastOp, resolved, adm, srv>>

\* AddImage is called: writeLayers makes the table and starts one writer
\* per layer.
AddImageStart(i) ==
    /\ ing.pc = "idle"
    /\ ing' = [IdleIngest EXCEPT !.pc = "layers", !.img = i, !.n = 1,
                                 !.manifest = Manifest(i),
                                 !.wpc = [w \in 1..Len(i.layers) |-> "add"]]
    /\ UNCHANGED <<store, rd, namingVars>>

\* AddImage is called again on the image it has ingested, the store being
\* as the first call left it.
AddImageAgain ==
    /\ ing.pc = "done" /\ rd.op = "none"
    /\ ing.n < MaxIngests
    /\ ing' = [IdleIngest EXCEPT !.pc = "layers", !.img = ing.img, !.n = ing.n + 1,
                                 !.manifest = Manifest(ing.img),
                                 !.wpc = [w \in 1..Len(ing.img.layers) |-> "add"],
                                 !.prev = [root |-> ing.root, cidMap |-> ing.cidMap]]
    /\ UNCHANGED <<store, rd, namingVars>>

Writers == 1..Len(ing.wpc)
WriterDigest(w) == SHA256(LayerBlob(ing.img.layers[w]))
WriterCid(w) == CidOf(LayerBlob(ing.img.layers[w]))

\* A writer adds its layer's compressed bytes to the store.
WriterAdd(w) ==
    /\ ing.pc = "layers" /\ ing.wpc[w] = "add"
    /\ store' = store \cup {LayerBlob(ing.img.layers[w])}
    /\ ing' = [ing EXCEPT !.wpc[w] = "insert"]
    /\ UNCHANGED <<rd, namingVars>>

\* The store refuses a writer's Add: the writer returns the error.
WriterAddFails(w) ==
    /\ ing.pc = "layers" /\ ing.wpc[w] = "add"
    /\ ing' = [ing EXCEPT !.wpc[w] = "error"]
    /\ UNCHANGED <<store, rd, namingVars>>

\* cidMap[d] = p.Cid(), no other writer being in the table.
WriterInsert(w) ==
    /\ ing.pc = "layers" /\ ing.wpc[w] = "insert"
    /\ ing' = [ing EXCEPT !.wpc[w] = "done",
                          !.cidMap = Put(@, WriterDigest(w), WriterCid(w))]
    /\ UNCHANGED <<store, rd, namingVars>>

\* What two unsynchronised assignments to a Go map can leave when they run
\* at the same time: the runtime detects them and kills the process; or,
\* both keys being new and both writers choosing the same free slot, that
\* slot holds v's entry only, or v's key with w's value.
RaceOutcomes == {"fatal", "lost", "mixed"}

SameSlot(w, v) ==
    /\ WriterDigest(w) # WriterDigest(v)
    /\ WriterDigest(w) \notin DOMAIN ing.cidMap
    /\ WriterDigest(v) \notin DOMAIN ing.cidMap

\* Two writers are in cidMap[d] = p.Cid() at the same time.
WritersRace(w, v, outcome) ==
    /\ ing.pc = "layers" /\ w # v
    /\ ing.wpc[w] = "insert" /\ ing.wpc[v] = "insert"
    /\ outcome # "fatal" => SameSlot(w, v)
    /\ ing' = IF outcome = "fatal"
              THEN [ing EXCEPT !.pc = "crashed", !.raced = TRUE]
              ELSE [ing EXCEPT !.wpc[w] = "done", !.wpc[v] = "done", !.raced = TRUE,
                               !.cidMap = IF outcome = "lost"
                                          THEN Put(@, WriterDigest(v), WriterCid(v))
                                          ELSE Put(@, WriterDigest(v), WriterCid(w))]
    /\ UNCHANGED <<store, rd, namingVars>>

Finished(t, caller) ==
    /\ ing' = [ing EXCEPT !.pc = t.pc, !.cidMap = t.cidMap, !.root = t.root,
                          !.manifest = caller, !.err = t.err]
    /\ store' = t.store

\* g.Wait() returns and AddImage runs to its end.
AddImageFinish(fault) ==
    /\ ing.pc = "layers"
    /\ \A w \in Writers : ing.wpc[w] \in {"done", "error"}
    /\ IF \E w \in Writers : ing.wpc[w] = "error"
       THEN /\ fault = "none"
            /\ ing' = [ing EXCEPT !.pc = "failed", !.err = AddError]
            /\ store' = store
       ELSE Finished(AddImageTail(ing.img, ing.cidMap, store, fault),
                     CallerManifest(ing.manifest, ConfigBlob(ing.img), ing.cidMap, fault))
    /\ UNCHANGED <<rd, namingVars>>

(***************************************************************************)
(* Graphs of other writers.  The store is shared: a graph in it need not   *)
(* be one AddImage wrote.  These are graphs of the shape AddImage gives,   *)
(* but for the locators of one descriptor.                                 *)
(***************************************************************************)
CraftImage == [flavour |-> "oci", layers |-> <<"A">>, urls |-> << >>]

\* The descriptor whose locators are off: that of the outer wrapper, of the
\* index's entry, of the manifest's config or of its layer.
CraftPositions == {"wrapper", "entry", "config", "layer"}

\* How they are off: no urls field, an empty list, two locators.
CraftKinds == {"absent", "empty", "two"}

SetUrls(desc, kind) ==
    IF kind = "absent" THEN [mediaType |-> desc.mediaType, digest |-> desc.digest]
    ELSE [mediaType |-> desc.mediaType, digest |-> desc.digest,
          urls |-> IF kind = "empty" THEN << >> ELSE desc.urls \o desc.urls]

CraftCids ==
    Put(Put(<< >>, SHA256(ConfigBlob(CraftImage)), CidOf(ConfigBlob(CraftImage))),
        SHA256(LayerBlob("A")), CidOf(LayerBlob("A")))

CraftManifest(pos, kind) ==
    LET m == ConvertIpfs(Manifest(CraftImage), CraftCids).m
    IN  IF pos = "config" THEN [m EXCEPT !.config = SetUrls(@, kind)]
        ELSE IF pos = "layer" THEN [m EXCEPT !.layers[1] = SetUrls(@, kind)]
        ELSE m

CraftIndex(m, pos, kind) ==
    IF pos = "entry" THEN [IndexOf(m) EXCEPT !.manifests[1] = SetUrls(@, kind)]
    ELSE IndexOf(m)

CraftWrapper(idx, pos, kind) ==
    IF pos = "wrapper" THEN SetUrls(WrapperOf(idx), kind) ELSE WrapperOf(idx)

CraftRecords(m, idx, w) ==
    [root |-> {CidOf(MarshalObj(w))},
     blobs |-> {LayerBlob("A"), ConfigBlob(CraftImage), MarshalObj(m), MarshalObj(idx),
                MarshalObj(w)}]

CraftOver(m, idx, pos, kind) == CraftRecords(m, idx, CraftWrapper(idx, pos, kind))
CraftOn(m, pos, kind) == CraftOver(m, CraftIndex(m, pos, kind), pos, kind)
CraftGraph(pos, kind) == CraftOn(CraftManifest(pos, kind), pos, kind)

\* Another writer has put a graph into the store, of which ing.root is the
\* root; no AddImage runs on this store.
AddCrafted(pos, kind) ==
    /\ ing.pc = "idle"
    /\ store' = store \cup CraftGraph(pos, kind).blobs
    /\ ing' = [ing EXCEPT !.pc = "crafted", !.root = CraftGraph(pos, kind).root,
                          !.craft = [pos |-> pos, kind |-> kind]]
    /\ UNCHANGED <<rd, namingVars>>

\* The store holds a graph to read.
Readable == ing.pc \in {"done", "crafted"}

(***************************************************************************)
(* Graph Walker (registry.go): ReadManifest, ReadBlob, walk, step.          *)
(* down is the set of CIDs whose blobs the store cannot deliver.            *)
(***************************************************************************)
UndefCid == [undef |-> TRUE]     \* cid.Cid{}
NoDigest == [none |-> TRUE]      \* the digest string ""

\* cid.Decode: the strings that are CIDs are the CIDs of blobs.
CidDecode(s) ==
    IF "hash" \in DOMAIN s THEN [ok |-> TRUE, c |-> s] ELSE [ok |-> FALSE, c |-> UndefCid]

\* digest.Parse
IsDigest(d) == "sha256" \in DOMAIN d

\* url.Parse: the scheme and the host name of "scheme://host"
UrlParse(u) ==
    [scheme |-> IF u[1] = IPFSSchema THEN "ipfs" ELSE "", host |-> u[2]]

\* ipfs.open
Open(c, down) ==
    IF c \notin down /\ StoreHas(c)
    THEN [ok |-> TRUE, f |-> {StoreGet(c)}]
    ELSE [ok |-> FALSE, f |-> {}]

FileOf(o) == CHOOSE b \in o.f : TRUE

\* json.NewDecoder(f).Decode: raw bytes are not JSON; the fields of a JSON
\* object, a Name Map having none of the fields the walker reads.
Decodes(f) == "raw" \notin DOMAIN f
Obj(f) == IF "obj" \in DOMAIN f THEN f.obj ELSE [names |-> f.json]
Has(o, field) == field \in DOMAIN o

CidError(err, panic) == [ok |-> FALSE, panic |-> panic, err |-> err, c |-> UndefCid]

\* ipfs.resolveCids: urls[0] of an empty list is an index out of range.
ResolveCids(urls) ==
    IF Len(urls) > 1 THEN CidError("expected a single cid", FALSE)
    ELSE IF Len(urls) = 0 THEN CidError("index out of range", TRUE)
    ELSE IF UrlParse(urls[1]).scheme # "ipfs"
    THEN CidError("expected ipfs scheme prefix", FALSE)
    ELSE IF ~CidDecode(UrlParse(urls[1]).host).ok THEN CidError("cid decode", FALSE)
    ELSE [ok |-> TRUE, panic |-> FALSE, err |-> "", c |-> UrlParse(urls[1]).host]

StepError(err, panic) ==
    [ok |-> FALSE, panic |-> panic, err |-> err, c |-> UndefCid, d |-> NoDigest, mt |-> ""]

\* Fields of a decoded descriptor; an absent field is the zero value.
UrlsOf(desc) == IF Has(desc, "urls") THEN desc.urls ELSE <<>>
DigestOf(desc) == IF Has(desc, "digest") THEN desc.digest ELSE NoDigest
MediaTypeOf(desc) == IF Has(desc, "mediaType") THEN desc.mediaType ELSE ""

\* ipfs.step, lines 312-322: c is what resolveCids returned for the
\* locators, ds the digest string, mt the media type of the record read.
StepResolved(c, ds, mt) ==
    IF ~c.ok THEN StepError(c.err, c.panic)
    ELSE IF ~IsDigest(ds) THEN StepError("invalid digest", FALSE)
    ELSE [ok |-> TRUE, panic |-> FALSE, err |-> "", c |-> c.c, d |-> ds, mt |-> mt]

\* ipfs.step, lines 297-310: the record's own locators, or those of its
\* single manifest.
StepObj(robj) ==
    IF Has(robj, "urls")
    THEN StepResolved(ResolveCids(robj.urls), DigestOf(robj), MediaTypeOf(robj))
    ELSE IF Has(robj, "manifests") /\ Len(robj.manifests) = 1
    THEN StepResolved(ResolveCids(UrlsOf(robj.manifests[1])),
                      DigestOf(robj.manifests[1]), MediaTypeOf(robj))
    ELSE StepError("nope", FALSE)

\* ipfs.step: the CID and the digest one step down and the media type of
\* the record read.
Step(f) == IF ~Decodes(f) THEN StepError("json decode", FALSE) ELSE StepObj(Obj(f))

Emit(c, d, mt) == [c |-> c, d |-> d, mt |-> mt]

Walked(err, panic, emits, fetches) ==
    [err |-> err, panic |-> panic, emits |-> emits, fetches |-> fetches]

\* walk, lines 276-285: lcs are the results of resolveCids for the layers;
\* the layers before the first that does not resolve are handed on.
WalkLayers(layers, lcs, emits, fetches) ==
    LET bad == {k \in 1..Len(layers) : ~lcs[k].ok}
        stop == IF bad = {} THEN Len(layers) + 1
                ELSE CHOOSE k \in bad : \A j \in bad : k <= j
        all == emits \o [k \in 1..(stop - 1) |->
                            Emit(lcs[k].c, DigestOf(layers[k]), MediaTypeOf(layers[k]))]
    IN  IF bad = {} THEN Walked("", FALSE, all, fetches)
        ELSE Walked(lcs[stop].err, lcs[stop].panic, all, fetches)

\* walk, lines 267-274: cc is the result of resolveCids for the config.
WalkConfig(config, cc, layers, emits, fetches) ==
    IF ~cc.ok THEN Walked(cc.err, cc.panic, emits, fetches)
    ELSE WalkLayers(layers, [k \in 1..Len(layers) |-> ResolveCids(UrlsOf(layers[k]))],
                    Append(emits, Emit(cc.c, DigestOf(config), MediaTypeOf(config))),
                    fetches)

\* walk, lines 262-265: the manifest is decoded; absent fields are zero.
WalkManifest(m, emits, fetches) ==
    IF Has(m, "config")
    THEN WalkConfig(m.config, ResolveCids(UrlsOf(m.config)),
                    IF Has(m, "layers") THEN m.layers ELSE <<>>, emits, fetches)
    ELSE Walked("index out of range", TRUE, emits, fetches)

\* walk, lines 257-260: mf is what open returned for the manifest.
WalkManifestFile(mf, emits, fetches) ==
    IF ~mf.ok THEN Walked("open", FALSE, emits, fetches)
    ELSE IF ~Decodes(FileOf(mf)) THEN Walked("json decode", FALSE, emits, fetches)
    ELSE WalkManifest(Obj(FileOf(mf)), emits, fetches)

\* walk, lines 248-255: s is what step returned for the index.
WalkIndexStep(s, emits, fetches, down) ==
    IF ~s.ok THEN Walked(s.err, s.panic, emits, fetches)
    ELSE WalkManifestFile(Open(s.c, down), Append(emits, Emit(s.c, s.d, s.mt)),
                          Append(fetches, s.c))

\* walk, lines 243-246: idxf is what open returned for the index.
WalkIndexFile(idxf, emits, fetches, down) ==
    IF ~idxf.ok THEN Walked("open", FALSE, emits, fetches)
    ELSE WalkIndexStep(Step(FileOf(idxf)), emits, fetches, down)

\* walk, lines 237-241: s is what step returned for the root.  Its error is
\* not looked at: the walk hands the zero values on and opens the zero CID.
WalkRootStep(s, fetches, down) ==
    IF s.panic THEN Walked(s.err, TRUE, <<>>, fetches)
    ELSE WalkIndexFile(Open(s.c, down), <<Emit(s.c, s.d, s.mt)>>,
                       Append(fetches, s.c), down)

\* walk, lines 232-235: rootf is what open returned for the root.
WalkRootFile(rootf, fetches, down) ==
    IF ~rootf.ok THEN Walked("open", FALSE, <<>>, fetches)
    ELSE WalkRootStep(Step(FileOf(rootf)), fetches, down)

\* ipfs.walk with the callback of ReadBlob, which never fails: the nodes
\* handed to the callback in order, the CIDs fetched in order, and the error
\* or panic the walk ended with.
Walk(rootc, down) == WalkRootFile(Open(rootc, down), <<rootc>>, down)

ReadResult(ok, content, mt, err, panic, emits, fetches) ==
    [ok |-> ok, content |-> content, mt |-> mt, err |-> err, panic |-> panic,
     emits |-> emits, fetches |-> fetches]

ReadError(err, emits, fetches) == ReadResult(FALSE, {}, "", err, FALSE, emits, fetches)

DigestNotFound == "didn't find desired digest"

\* ReadBlob, lines 182-187: the node found is opened.
ReadFound(node, ff, w) ==
    IF ~ff.ok THEN ReadError("open", w.emits, Append(w.fetches, node.c))
    ELSE ReadResult(TRUE, ff.f, node.mt, "", FALSE, w.emits, Append(w.fetches, node.c))

\* The node the callback of ReadBlob has kept: the last whose digest is d.
LastMatch(emits, matches) == emits[CHOOSE k \in matches : \A j \in matches : j <= k]

\* Mutant of ReadWalked: a walk without a match is an empty success.
ReadWalkedEmpty(w, matches, down) ==
    IF w.panic THEN ReadResult(FALSE, {}, "", w.err, TRUE, w.emits, w.fetches)
    ELSE IF w.err # "" THEN ReadError(w.err, w.emits, w.fetches)
    ELSE IF matches = {} THEN ReadResult(TRUE, {}, "", "", FALSE, w.emits, w.fetches)
    ELSE ReadFound(LastMatch(w.emits, matches),
                   Open(LastMatch(w.emits, matches).c, down), w)

\* ReadBlob, lines 166-180: w is what the walk did.
ReadWalked(w, matches, down) ==
    IF w.panic THEN ReadResult(FALSE, {}, "", w.err, TRUE, w.emits, w.fetches)
    ELSE IF w.err # "" THEN ReadError(w.err, w.emits, w.fetches)
    ELSE IF matches = {} THEN ReadError(DigestNotFound, w.emits, w.fetches)
    ELSE ReadFound(LastMatch(w.emits, matches),
                   Open(LastMatch(w.emits, matches).c, down), w)

Matches(w, d) == {k \in 1..Len(w.emits) : w.emits[k].d = d}

ReadBlobWalk(w, d, down) == ReadWalked(w, Matches(w, d), down)

\* ipfs.ReadBlob: the callback keeps the last node whose digest is d.
ReadBlob(name, d, down) ==
    IF ~CidDecode(name).ok THEN ReadError("cid decode", <<>>, <<>>)
    ELSE ReadBlobWalk(Walk(CidDecode(name).c, down), d, down)

Latest == [tag |-> "latest"]

\* ReadManifest, lines 137-142: idxf is what open returned for the index.
ReadLatestIndex(s, idxf, fetches) ==
    IF ~idxf.ok THEN ReadError("open", <<>>, Append(fetches, s.c))
    ELSE ReadResult(TRUE, idxf.f, s.mt, "", FALSE, <<>>, Append(fetches, s.c))

\* ReadManifest, lines 132-135: s is what step returned for the root.
ReadLatestStep(s, fetches, down) ==
    IF ~s.ok THEN ReadResult(FALSE, {}, "", s.err, s.panic, <<>>, fetches)
    ELSE ReadLatestIndex(s, Open(s.c, down), fetches)

\* ReadManifest, lines 127-130: rootf is what open returned for the root.
ReadLatest(rootf, fetches, down) ==
    IF ~rootf.ok THEN ReadError("open", <<>>, fetches)
    ELSE ReadLatestStep(Step(FileOf(rootf)), fetches, down)

\* Mutant of ReadManifest: only "latest" is served.
ReadManifestLatestOnly(name, reference, down) ==
    IF ~CidDecode(name).ok THEN ReadError("cid decode", <<>>, <<>>)
    ELSE IF reference = Latest
    THEN ReadLatest(Open(CidDecode(name).c, down), <<CidDecode(name).c>>, down)
    ELSE ReadError("reference must be 'latest'", <<>>, <<>>)

\* ipfs.ReadManifest
ReadManifest(name, reference, down) ==
    IF ~CidDecode(name).ok THEN ReadError("cid decode", <<>>, <<>>)
    ELSE IF reference = Latest
    THEN ReadLatest(Open(CidDecode(name).c, down), <<CidDecode(name).c>>, down)
    ELSE IF ~IsDigest(reference)
    THEN ReadError("reference must either be 'latest' or a valid digest", <<>>, <<>>)
    ELSE ReadBlob(name, reference, down)

(***************************************************************************)
(* Readers of an ingested graph.                                           *)
(***************************************************************************)
\* The HTTP request a read was made for and the response written; NoHttp
\* for a read called directly.
NoHttp == [method |-> "", route |-> "", status |-> 0, ctype |-> "", body |-> {}]

NoRead ==
    [op |-> "none", name |-> UndefCid, ref |-> NoDigest, down |-> {},
     res |-> ReadError("", <<>>, <<>>), http |-> NoHttp]

StoreCids == {CidOf(b) : b \in store}

\* Names a request may carry: the CID of any blob of the store, or a string
\* that is no CID.
ReadNames == StoreCids \cup {[name |-> "notacid"]}

\* A digest of no blob of any graph.
AbsentDigest == SHA256(LayerBlob("Z"))

ReadDigests == {SHA256(b) : b \in store} \cup {AbsentDigest}

ReadReferences == ReadDigests \cup {Latest, [tag |-> "v1"]}

\* The blobs that may be out of reach during a read: none, or one.
Downs == {{}} \cup {{c} : c \in StoreCids}

ReadBlobCall ==
    /\ Readable /\ rd = NoRead
    /\ \E name \in ReadNames, d \in ReadDigests, down \in Downs :
          rd' = [op |-> "ReadBlob", name |-> name, ref |-> d, down |-> down,
                 res |-> ReadBlob(name, d, down), http |-> NoHttp]
    /\ UNCHANGED <<store, ing, namingVars>>

ReadManifestCall ==
    /\ Readable /\ rd = NoRead
    /\ \E name \in ReadNames, reference \in ReadReferences, down \in Downs :
          rd' = [op |-> "ReadManifest", name |-> name, ref |-> reference, down |-> down,
                 res |-> ReadManifest(name, reference, down), http |-> NoHttp]
    /\ UNCHANGED <<store, ing, namingVars>>

(***************************************************************************)
(* Registry Server (registry.go): the chi router of NewIpfsRegistry and    *)
(* the handlers.                                                           *)
(***************************************************************************)
StatusOK == 200
StatusNotFound == 404
StatusMethodNotAllowed == 405
StatusInternalServerError == 500
StatusAborted == 0       \* no response: the server drops the connection


Methods == {"GET", "HEAD", "POST"}
Routes == {"health", "manifests", "blobs", "other"}

\* The body of the health check, `{}`.
HealthBody == [raw |-> "{}"]

\* A name that the route pattern {cid:[a-z0-9]+} does not match.
UpperName == [name |-> "QmUpper"]

MatchesCidPattern(name) == name # UpperName

\* The methods each route is registered for (lines 53-67).
Registered(route) ==
    IF route = "health" THEN {"GET"}
    ELSE IF route \in {"manifests", "blobs"} THEN {"GET", "HEAD"}
    ELSE {}

Response(method, route, status, ctype, body) ==
    [method |-> method, route |-> route, status |-> status, ctype |-> ctype,
     body |-> body]

\* The router's answer when no handler runs: 404 for a path that matches no
\* route, 405 for a method the route is not registered for; "" if a handler
\* is to run.
RouterStatus(method, route, name) ==
    IF route = "other" THEN StatusNotFound
    ELSE IF route # "health" /\ ~MatchesCidPattern(name) THEN StatusNotFound
    ELSE IF method \notin Registered(route) THEN StatusMethodNotAllowed
    ELSE StatusOK

\* A handler that has the result of the reader: on an error it returns
\* having written nothing, and the server sends 200 with no body; on a panic
\* nothing is written; else Content-Type is set and http.ServeContent sends
\* the content, without the body for HEAD.
HandlerResponse(method, route, res) ==
    IF res.panic THEN Response(method, route, StatusAborted, "", {})
    ELSE IF ~res.ok THEN Response(method, route, StatusOK, "", {})
    ELSE Response(method, route, StatusOK, res.mt,
                  IF method = "HEAD" THEN {} ELSE res.content)

\* buildGetManifestHandler
GetManifestHandler(method, name, reference, down) ==
    [op |-> "ReadManifest", name |-> name, ref |-> reference, down |-> down,
     res |-> ReadManifest(name, reference, down),
     http |-> HandlerResponse(method, "manifests",
                              ReadManifest(name, reference, down))]

\* buildGetBlobsHandler: a reference that is no digest ends the handler
\* before the reader is called.
GetBlobsHandler(method, name, reference, down) ==
    IF ~IsDigest(reference)
    THEN [op |-> "blobs", name |-> name, ref |-> reference, down |-> down,
          res |-> ReadError("invalid digest", <<>>, <<>>),
          http |-> Response(method, "blobs", StatusOK, "", {})]
    ELSE [op |-> "ReadBlob", name |-> name, ref |-> reference, down |-> down,
          res |-> ReadBlob(name, reference, down),
          http |-> HandlerResponse(method, "blobs",
                                    ReadBlob(name, reference, down))]

\* buildHealthHandler
HealthHandler(method) ==
    [NoRead EXCEPT !.op = "health",
                   !.http = Response(method, "health", StatusOK, "", {HealthBody})]

\* Router.ServeHTTP
Serve(method, route, name, reference, down) ==
    IF RouterStatus(method, route, name) # StatusOK
    THEN [op |-> "router", name |-> name, ref |-> reference, down |-> down,
          res |-> ReadError("", <<>>, <<>>),
          http |-> Response(method, route, RouterStatus(method, route, name), "", {})]
    ELSE IF route = "health" THEN HealthHandler(method)
    ELSE IF route = "manifests"
    THEN GetManifestHandler(method, name, reference, down)
    ELSE GetBlobsHandler(method, name, reference, down)

\* Names a request for an ingested image carries: the root handle, or a
\* string that is no CID, or one that the route pattern does not match.
RequestNames == ing.root \cup {[name |-> "notacid"], UpperName}

\* What a handler's run becomes on the wire.  A panic in a handler passes
\* through the request logger's middleware chain (line 47): if that recovers
\* it the client gets 500, else the server drops the connection.
Recovered(r) == [r EXCEPT !.http.status = StatusInternalServerError]
Outcomes(r) == IF r.res.panic THEN {r, Recovered(r)} ELSE {r}

\* The store as the server finds it: every blob in reach, or a root out of
\* reach.
ServeDowns == {{}} \cup {{c} : c \in ing.root}

\* An HTTP request is served.
ServeHTTP ==
    /\ Readable /\ rd = NoRead
    /\ \E method \in Methods, route \in Routes, name \in RequestNames,
          reference \in ReadReferences, down \in ServeDowns :
          rd' \in Outcomes(Serve(method, route, name, reference, down))
    /\ UNCHANGED <<store, ing, namingVars>>

ReadReturn ==
    /\ rd # NoRead
    /\ rd' = NoRead
    /\ UNCHANGED <<store, ing, namingVars>>

(***************************************************************************)
(* The serve command (serveCommandOpts.Run): the main goroutine, the       *)
(* goroutine of the embedded store daemon and that of the HTTP listener,   *)
(* which report an error by sending it on the unbuffered channel errc.     *)
(***************************************************************************)
\* A goroutine is "none" before it is started, "running", "sending" while
\* blocked in errc <- err, "ended" when it has returned.
IdleServe ==
    [pc |-> "init", standalone |-> FALSE, ctx |-> "live", daemon |-> "none",
     listener |-> "none", errs |-> {}, ret |-> "none"]

Goroutines == {"daemon", "listener"}

serveFrame == <<peers, secret, ipns, store, upd, runs, daemon, lastOp, resolved, adm, ing, rd>>

\* Lines 46-59: initIpfs, the registry, errc, and the daemon's goroutine is
\* started; then ensureSwarmed unless standalone.
ServeStart(standalone) ==
    /\ srv.pc = "init"
    /\ srv' = [srv EXCEPT !.pc = IF standalone THEN "listen" ELSE "swarm",
                          !.standalone = standalone, !.daemon = "running"]
    /\ UNCHANGED serveFrame

\* Lines 46-49: initIpfs fails and Run returns its error.
ServeInitFails ==
    /\ srv.pc = "init"
    /\ srv' = [srv EXCEPT !.pc = "returned", !.ret = "error"]
    /\ UNCHANGED serveFrame

\* ipfsDaemon.Start or http.ListenAndServe returns an error: the goroutine
\* goes to send it on errc.
GoroutineFails(g) ==
    /\ srv[g] = "running"
    /\ srv' = [srv EXCEPT ![g] = "sending"]
    /\ UNCHANGED serveFrame

\* ipfsDaemon.Start returns nil: its goroutine ends.
DaemonEnds ==
    /\ srv.daemon = "running"
    /\ srv' = [srv EXCEPT !.daemon = "ended"]
    /\ UNCHANGED serveFrame

\* The caller cancels Run's context.
CtxCancel ==
    /\ srv.ctx = "live" /\ srv.pc \notin {"init", "returned"}
    /\ srv' = [srv EXCEPT !.ctx = "cancelled"]
    /\ UNCHANGED serveFrame

\* ensureSwarmed, one turn of its loop: Peers fails and Run returns the
\* error; or there is no peer and it goes on; or the swarm is joined.
EnsureSwarmed(fails) ==
    /\ srv.pc = "swarm"
    /\ srv' = IF fails THEN [srv EXCEPT !.pc = "returned", !.ret = "error"]
              ELSE IF peers < 1 THEN srv
              ELSE [srv EXCEPT !.pc = "listen"]
    /\ UNCHANGED serveFrame

\* Lines 67-72: the listener's goroutine is started.
ListenStart ==
    /\ srv.pc = "listen"
    /\ srv' = [srv EXCEPT !.pc = "select", !.listener = "running"]
    /\ UNCHANGED serveFrame

\* select, case <-ctx.Done(): Run returns nil.
SelectDone ==
    /\ srv.pc = "select" /\ srv.ctx = "cancelled"
    /\ srv' = [srv EXCEPT !.pc = "returned", !.ret = "nil"]
    /\ UNCHANGED serveFrame

\* select, case <-errc: the value received from goroutine g is dropped, and
\* Run goes to range over errc.
SelectErrc(g) ==
    /\ srv.pc = "select" /\ srv[g] = "sending"
    /\ srv' = [srv EXCEPT !.pc = "range", ![g] = "ended"]
    /\ UNCHANGED serveFrame

\* for e := range errc: a value is received from goroutine g and
\* errs = multierror.Append(e).  errc is never closed: the loop has no end.
RangeErrc(g) ==
    /\ srv.pc = "range" /\ srv[g] = "sending"
    /\ srv' = [srv EXCEPT !.errs = {g}, ![g] = "ended"]
    /\ UNCHANGED serveFrame

NextServe ==
    \/ \E standalone \in BOOLEAN : ServeStart(standalone)
    \/ ServeInitFails
    \/ \E g \in Goroutines : GoroutineFails(g)
    \/ DaemonEnds
    \/ CtxCancel
    \/ \E fails \in BOOLEAN : EnsureSwarmed(fails)
    \/ ListenStart
    \/ SelectDone
    \/ \E g \in Goroutines : SelectErrc(g)
    \/ \E g \in Goroutines : RangeErrc(g)
    \/ PeersChange

Init ==
    /\ peers = 0
    /\ secret = {}
    /\ ipns = {}
    /\ store = {}
    /\ upd = [u \in Updaters |-> IdleUpdater]
    /\ runs = 0
    /\ daemon = "waiting"
    /\ lastOp = OtherOp
    /\ resolved = NoResolve
    /\ adm = NoAdmission
    /\ ing = IdleIngest
    /\ rd = NoRead
    /\ srv = IdleServe

\* The Naming Service and its writers: the `ripfs add` processes, the
\* bootstrap actions and the swarm.
Next ==
    \/ \E u \in Updaters : UpdateFetch(u)
    \/ \E u \in Updaters : UpdateFetchNoMap(u)
    \/ \E u \in Updaters : UpdateFail(u)
    \/ \E u \in Updaters : UpdateAdd(u)
    \/ \E u \in Updaters : UpdatePublish(u)
    \/ ReconcileNotReady
    \/ ReconcileHasKey
    \/ ReconcileCreate
    \/ ReconcileUpdateFails
    \/ DaemonCreateMapper
    \/ PeersChange

Spec == Init /\ [][Next]_vars

\* The reconciler is requeued after every return without a key recorded
\* (Requeue: true, or the error it returned), and its calls to the store and
\* the cluster do not fail for ever.
\* The serve command under the Go scheduler: a goroutine that can take a
\* step takes it.
SpecServe ==
    /\ Init /\ [][NextServe]_vars
    /\ WF_vars(ListenStart)
    /\ WF_vars(SelectDone)
    /\ WF_vars(\E g \in Goroutines : SelectErrc(g))
    /\ WF_vars(\E g \in Goroutines : RangeErrc(g))
    /\ WF_vars(EnsureSwarmed(FALSE) /\ peers >= 1)

SpecLive == Init /\ [][Next]_vars /\ WF_vars(ReconcileCreate)

\* Every Name Map over the keys `ripfs add` registers.
NameMaps ==
    UNION {[K -> {PathString(c) : c \in RootCids}] : K \in SUBSET UpdateRefs}

\* The cluster as the clients may find it: nothing published yet; the empty
\* map published and its key not recorded yet; or the key recorded and some
\* Name Map published by the adds that ran to completion.
InitClients ==
    /\ peers \in 0..MaxPeers
    /\ \/ secret = {} /\ ipns = {} /\ store = {}
       \/ secret = {} /\ ipns = {CidOf(EmptyMapBlob)} /\ store = {EmptyMapBlob}
       \/ \E m \in NameMaps :
             /\ secret = {SelfName}
             /\ ipns = {CidOf(MarshalMap(m))}
             /\ store = {EmptyMapBlob, MarshalMap(m)}
    /\ upd = [u \in Updaters |-> IdleUpdater]
    /\ runs = 0
    /\ daemon = "done"
    /\ lastOp = OtherOp
    /\ resolved = NoResolve
    /\ adm = NoAdmission
    /\ ing = IdleIngest
    /\ rd = NoRead
    /\ srv = IdleServe

NextClients ==
    \/ ResolveCall
    \/ HandleUndecodable
    \/ Handle
    \/ ClientReturn
    \/ PeersChange

SpecClients == InitClients /\ [][NextClients]_vars

\* One ingestion and the reads of what it stored.
InitImage == Init

NextImage ==
    \/ \E i \in Images : AddImageStart(i)
    \/ AddImageAgain
    \/ \E pos \in CraftPositions, kind \in CraftKinds : AddCrafted(pos, kind)
    \/ \E w \in Writers : WriterAdd(w)
    \/ \E w \in Writers : WriterAddFails(w)
    \/ \E w \in Writers : WriterInsert(w)
    \/ \E w, v \in Writers, outcome \in RaceOutcomes : WritersRace(w, v, outcome)
    \/ \E fault \in AddFaults : AddImageFinish(fault)
    \/ ReadBlobCall
    \/ ReadManifestCall
    \/ ServeHTTP
    \/ ReadReturn

SpecImage == InitImage /\ [][NextImage]_vars

(***************************************************************************)
(* Properties of the Naming Service.                                       *)
(***************************************************************************)
IsCanonical(ref) == ParseReference(ref).ok /\ RefName(ParseReference(ref)) = ref

ResolvesTo(ref, cid) ==
    LET r == Resolve(ref, "none") IN r.ok /\ r.value = PathString(cid)

\* C1 (as specified; read with the store peered, which Resolve requires): in
\* the state a successful Update(ref, cid) leaves, no other Update having
\* run meanwhile, Resolve(ref) returns cid.
C1_UpdateThenResolve ==
    (lastOp.kind = "update" /\ lastOp.solo /\ peers > 0)
        => ResolvesTo(lastOp.ref, lastOp.cid)

\* C2: Update has no mutual exclusion. When an Update publishes after
\* Updates that published while it held its copy of the map, the blobs of all
\* of them are in the store, the published map is the later writer's copy with
\* its entry, and each earlier insertion is lost: the earlier reference is
\* mapped as the later writer had read it, or not at all, and then it does
\* not resolve (a key that is not canonical is never what Resolve looks up:
\* Resolve looks up the canonical name, which is another key).
C2_LaterPublishWins ==
    lastOp.kind = "update" =>
        /\ ipns # {} /\ StoreHas(PublishedCid)
        /\ lastOp.ref \in DOMAIN PublishedMap
        /\ PublishedMap[lastOp.ref] = PathString(lastOp.cid)
        /\ \A e \in lastOp.lost :
              /\ \E b \in store : e.ref \in DOMAIN b.json /\ b.json[e.ref] = PathString(e.cid)
              /\ e.ref # lastOp.ref =>
                    IF e.ref \in DOMAIN lastOp.base
                    THEN /\ e.ref \in DOMAIN PublishedMap
                         /\ PublishedMap[e.ref] = lastOp.base[e.ref]
                    ELSE /\ e.ref \notin DOMAIN PublishedMap
                         /\ IsCanonical(e.ref) => ~Resolve(e.ref, "none").ok

\* C2 witness: two overlapping Updates of distinct canonical references both
\* published; the later one resolves and the earlier one does not.
C2_LostUpdate ==
    /\ lastOp.kind = "update"
    /\ peers > 0
    /\ IsCanonical(lastOp.ref)
    /\ ResolvesTo(lastOp.ref, lastOp.cid)
    /\ \E e \in lastOp.lost :
          /\ e.ref # lastOp.ref
          /\ IsCanonical(e.ref)
          /\ ~Resolve(e.ref, "none").ok
          /\ MarshalMap(Insert(lastOp.base, e.ref, e.cid)) \in store

\* C2, the other outcome: two Updates of distinct references that do not
\* overlap, after which both resolve.
C2_BothResolvable ==
    /\ lastOp.kind = "update"
    /\ lastOp.solo
    /\ peers > 0
    /\ ResolvesTo(lastOp.ref, lastOp.cid)
    /\ \E k \in DOMAIN lastOp.base : k # lastOp.ref /\ Resolve(k, "none").ok

\* C15: the Name Map only grows. In the state a successful Update leaves, no
\* other Update having overlapped it, every key of the map that was published
\* when the Update was called is a key of the published map with the value it
\* had, but for the Update's own reference; the Update's reference is the only
\* key that may be new.
C15_MapOnlyGrows ==
    (lastOp.kind = "update" /\ lastOp.solo) =>
        /\ ipns # {} /\ StoreHas(PublishedCid)
        /\ DOMAIN PublishedMap = DOMAIN lastOp.base \cup {lastOp.ref}
        /\ \A k \in DOMAIN lastOp.base \ {lastOp.ref} :
              PublishedMap[k] = lastOp.base[k]

\* C15 witness: an Update that overlapped no other has published, and the map
\* it was called on had an entry for another reference, which is kept.
C15_KeptEntry ==
    /\ lastOp.kind = "update"
    /\ lastOp.solo
    /\ \E k \in DOMAIN lastOp.base \ {lastOp.ref} :
          k \in DOMAIN PublishedMap /\ PublishedMap[k] = lastOp.base[k]

\* C16 (as specified): every key of the published Name Map is a canonical
\* reference string, whatever the add command ingested.
C16_KeysCanonical ==
    (ipns # {} /\ StoreHas(PublishedCid)) =>
        \A k \in DOMAIN PublishedMap : IsCanonical(k)

(***************************************************************************)
(* Properties of the clients.                                              *)
(***************************************************************************)
Lists == {"init", "ctrs"}

Handled == adm.handled /\ adm.decodes

\* The image the mutator is to write for a resolved value "/ipfs/<cid>":
\* "<registry host>/ipfs/<cid>".
RegistryImage(value) == <<RegistryHost>> \o value

\* C6: after Handle, each container and init container on its own: its image
\* is registryHost/cid if Resolve of its image returned cid, and its original
\* image if Resolve failed.
C6_PerContainerRewrite ==
    Handled =>
        \A l \in Lists : \A i \in 1..Len(adm.pod[l]) :
            /\ Len(adm.out[l]) = Len(adm.pod[l])
            /\ IF adm.res[l][i].ok
               THEN /\ adm.res[l][i].value \in {PathString(c) : c \in RootCids}
                    /\ adm.out[l][i] = RegistryImage(adm.res[l][i].value)
               ELSE adm.out[l][i] = adm.pod[l][i]

\* C6 witness: a pod of which one image resolved and was rewritten and
\* another, before it, did not resolve and was left alone.
C6_MixedPod ==
    /\ Handled
    /\ \E l \in Lists : \E i, j \in 1..Len(adm.pod[l]) :
          /\ j < i
          /\ ~adm.res[l][j].ok /\ adm.out[l][j] = adm.pod[l][j]
          /\ adm.res[l][i].ok /\ adm.out[l][i] # adm.pod[l][i]

ChangedFields == {f \in Lists \X (1..MaxContainers) :
                    /\ f[2] <= Len(adm.pod[f[1]])
                    /\ adm.out[f[1]][f[2]] # adm.pod[f[1]][f[2]]}

ListName(l) == IF l = "init" THEN "initContainers" ELSE "containers"

AnyResolved == \E l \in Lists : \E i \in 1..Len(adm.pod[l]) : adm.res[l][i].ok

NotFound == "cid does not exist for reference"

\* C8: a pod that decodes is never answered with an error, whichever of its
\* images have no mapping: the response is a patch or an "allowed".
C8_NeverFailsOnMiss ==
    Handled => adm.resp.allowed /\ adm.resp.code = 200

\* C8 witness: a request one of whose images has no mapping (the map was
\* fetched and has no such key), answered "allowed".
C8_MissAllowed ==
    /\ Handled
    /\ \E l \in Lists : \E i \in 1..Len(adm.pod[l]) : adm.res[l][i].err = NotFound
    /\ adm.resp.allowed

\* C9 (as specified): when Resolve fails for another reason than not-found
\* (readiness, transport, decoding), the request fails.
C9_SurfacesFailures ==
    (/\ Handled
     /\ \E l \in Lists : \E i \in 1..Len(adm.pod[l]) :
           ~adm.res[l][i].ok /\ adm.res[l][i].err # NotFound)
        => ~adm.resp.allowed

NotReady == "swarm not initialized yet, ipns cannot exist"

ReadOfRoot(op) == ing.pc = "done" /\ rd.op = op /\ rd.name \in ing.root

\* The config and layer descriptors of the ingested image's manifest.
ImageDescriptors ==
    {Manifest(ing.img).config}
        \cup {Manifest(ing.img).layers[k] : k \in 1..Len(ing.img.layers)}

\* C3 (as specified): after AddImage returned root handle r, ReadBlob(r, D)
\* for the config digest or a layer digest D succeeds, and returns the bytes
\* whose digest is D and the media type the manifest declares for D.
C3_ReadBlobReturnsWritten ==
    (ReadOfRoot("ReadBlob") /\ rd.down = {}) =>
        \A desc \in ImageDescriptors :
            rd.ref = desc.digest =>
                /\ rd.res.ok
                /\ rd.res.content = {rd.ref.sha256}
                /\ rd.res.mt = desc.mediaType

\* The records of the ingested graph, read from the store by following the
\* locators from the root.
LocatedBy(desc) == StoreGet(desc.urls[1][2])
RootWrapper == StoreGet(CHOOSE c \in ing.root : TRUE)
RootIndex == LocatedBy(RootWrapper.obj)
RootManifest == LocatedBy(RootIndex.obj.manifests[1])

IsIndexOfImage(b) ==
    /\ Has(b, "obj") /\ Has(b.obj, "manifests") /\ ~Has(b.obj, "urls")
    /\ b.obj.mediaType = OCIImageIndex
    /\ Len(b.obj.manifests) = 1
    /\ LET m == LocatedBy(b.obj.manifests[1])
       IN  /\ Has(m, "obj") /\ Has(m.obj, "config") /\ Has(m.obj, "layers")
           /\ m.obj.config.digest = SHA256(ConfigBlob(ing.img))
           /\ SHA256(m) = b.obj.manifests[1].digest

\* C4: ReadManifest(r, "latest") of a root handle r that AddImage returned
\* fetches the outer wrapper and the record its locator points at, nothing
\* else, and returns that record, which is the wrapping index of the image,
\* with the index media type; it fails only if one of the two is out of reach.
C4_LatestIsWrappingIndex ==
    (ReadOfRoot("ReadManifest") /\ rd.ref = Latest) =>
        /\ ~rd.res.panic
        /\ rd.res.ok <=> (rd.down \cap {CidOf(RootWrapper), CidOf(RootIndex)} = {})
        /\ rd.res.ok =>
              /\ rd.res.content = {RootIndex}
              /\ IsIndexOfImage(RootIndex)
              /\ rd.res.mt = OCIImageIndex
              /\ rd.res.fetches = <<CidOf(RootWrapper), CidOf(RootIndex)>>
              /\ rd.res.content \cap
                    ({RootWrapper, RootManifest, ConfigBlob(ing.img)}
                        \cup {LayerBlob(x) : x \in LayerData}) = {}

\* C4 witness: "latest" read from the root of an image with two different
\* layers returned an index.
C4_LatestRead ==
    /\ ReadOfRoot("ReadManifest") /\ rd.ref = Latest /\ rd.down = {}
    /\ Len(ing.img.layers) >= 2 /\ ing.img.layers[1] # ing.img.layers[2]
    /\ rd.res.ok
    /\ \E b \in rd.res.content : Has(b.obj, "manifests")

\* The digests of the index, the manifest, the config and the layers of the
\* ingested graph.
GraphDigests ==
    {SHA256(RootIndex), SHA256(RootManifest)} \cup {desc.digest : desc \in ImageDescriptors}

\* C5: ReadBlob(r, D) of a root handle r that AddImage returned, for a
\* digest D of no node of the graph, returns an error and no content and
\* does not panic; with every blob in reach the error is the not-found one.
C5_AbsentDigestNotFound ==
    (ReadOfRoot("ReadBlob") /\ rd.ref \notin GraphDigests) =>
        /\ ~rd.res.ok
        /\ ~rd.res.panic
        /\ rd.res.content = {}
        /\ rd.res.err # ""
        /\ rd.down = {} => rd.res.err = DigestNotFound

\* C5 witness: the whole graph of an image with layers was walked for a
\* digest of no blob of the store, and the lookup ended as not found.
C5_AbsentLookedUp ==
    /\ ReadOfRoot("ReadBlob") /\ rd.ref = AbsentDigest /\ rd.down = {}
    /\ Len(ing.img.layers) >= 2
    /\ Len(rd.res.emits) = 3 + Len(ing.img.layers)
    /\ rd.res.err = DigestNotFound

(***************************************************************************)
(* More properties of the Naming Service.                                  *)
(***************************************************************************)
\* C11 (as specified): an Update(ref, cid) called while no Name Map exists
\* (no key recorded in the secret, or the key does not resolve) does not
\* fail: it ends having published the map whose only entry is ref -> cid.
C11_UpdateOnNoMap ==
    lastOp.kind = "updateNoMap" =>
        /\ upd[lastOp.u].pc = "done"
        /\ ipns # {} /\ StoreHas(PublishedCid)
        /\ DOMAIN PublishedMap = {lastOp.ref}
        /\ PublishedMap[lastOp.ref] = PathString(lastOp.cid)

(***************************************************************************)
(* More properties of the Image Writer.                                    *)
(***************************************************************************)
TwiceIngested == ing.pc = "done" /\ ing.n = 2

\* C12 (as specified): AddImage of the same image twice returns two
\* different root handles, and the CIDs recorded for the layers are the same
\* in both ingestions.
C12_ReingestNewRoot ==
    TwiceIngested =>
        /\ ing.root # ing.prev.root
        /\ \A w \in Writers :
              /\ WriterDigest(w) \in DOMAIN ing.cidMap \cap DOMAIN ing.prev.cidMap
              /\ ing.cidMap[WriterDigest(w)] = ing.prev.cidMap[WriterDigest(w)]

(***************************************************************************)
(* Properties of the Registry Server.                                      *)
(***************************************************************************)
Served == rd.http # NoHttp

\* C13 (as specified): GET and HEAD are both served on the three routes:
\* neither is refused by the router for a path that matches the route, and
\* the health check answers 200 with an empty JSON object to GET and 200
\* without the body to HEAD.
C13_GetAndHeadServed ==
    (/\ Served
     /\ rd.http.method \in {"GET", "HEAD"}
     /\ rd.http.route \in {"health", "manifests", "blobs"}
     /\ rd.http.route # "health" => MatchesCidPattern(rd.name))
        => /\ rd.http.status # StatusMethodNotAllowed
           /\ rd.http.route = "health" =>
                 /\ rd.http.status = StatusOK
                 /\ rd.http.body = IF rd.http.method = "GET" THEN {HealthBody} ELSE {}

\* C14 (as specified): a manifests or blobs request that the reader could
\* not serve is never answered with a success status.
C14_FailureStatus ==
    (/\ Served
     /\ rd.op \in {"ReadManifest", "ReadBlob", "blobs"}
     /\ ~rd.res.ok)
        => rd.http.status \notin 200..299

(***************************************************************************)
(* Properties of the ingestion writer's records.                           *)
(***************************************************************************)
\* The descriptor has exactly one locator, an ipfs:// one of a blob of the
\* store.
SingleIpfsUrl(desc) ==
    /\ Has(desc, "urls")
    /\ Len(desc.urls) = 1
    /\ desc.urls[1][1] = IPFSSchema
    /\ desc.urls[1][2] \in StoreCids

\* C17: every descriptor reachable from a root handle AddImage returned (the
\* outer wrapper, the index's manifest entry, the manifest's config
\* descriptor and each layer descriptor) has exactly one locator, an ipfs://
\* one, whatever urls the input manifest's descriptors carried.
C17_SingleLocator ==
    ing.pc = "done" =>
        /\ SingleIpfsUrl(RootWrapper.obj)
        /\ Len(RootIndex.obj.manifests) = 1
        /\ SingleIpfsUrl(RootIndex.obj.manifests[1])
        /\ SingleIpfsUrl(RootManifest.obj.config)
        /\ Len(RootManifest.obj.layers) = Len(ing.img.layers)
        /\ \A k \in 1..Len(RootManifest.obj.layers) :
              SingleIpfsUrl(RootManifest.obj.layers[k])

\* C17 witness: an image whose descriptors came with a locator of another
\* scheme was ingested, and its layers' descriptors in the store locate the
\* layers' blobs.
C17_ForeignReplaced ==
    /\ ing.pc = "done"
    /\ ing.img.urls = <<ForeignUrl>>
    /\ Len(ing.img.layers) >= 2
    /\ ~ing.raced
    /\ \A k \in 1..Len(ing.img.layers) :
          RootManifest.obj.layers[k].urls = <<IpfsUrl(CidOf(LayerBlob(ing.img.layers[k])))>>

\* C18: ingestion does not change the caller's manifest: when AddImage has
\* returned, with a root handle or with an error, the manifest the image
\* gave it has the config and layer descriptors, urls included, that it had.
C18_CallerManifestKept ==
    ing.pc \in {"done", "failed"} => ing.manifest = Manifest(ing.img)

\* C18 witness: an ingestion succeeded, and the manifest it stored, decorated,
\* differs from the caller's, of which it is a copy.
C18_CopyDecorated ==
    /\ ing.pc = "done"
    /\ Len(ing.img.layers) >= 1
    /\ RootManifest.obj # ing.manifest
    /\ RootManifest.obj.config.digest = ing.manifest.config.digest

(***************************************************************************)
(* Properties of the Graph Walker on graphs of other writers.              *)
(***************************************************************************)
\* A lookup from the root of a graph whose descriptor at ing.craft.pos has
\* no locator or two, the store being in reach, which comes to that
\* descriptor: a walk for a digest, or "latest" when it is the wrapper's.
MeetsBadLocators ==
    /\ ing.pc = "crafted"
    /\ rd.op \in {"ReadBlob", "ReadManifest"}
    /\ rd.http = NoHttp
    /\ rd.name \in ing.root
    /\ rd.down = {}
    /\ IsDigest(rd.ref) \/ (rd.ref = Latest /\ ing.craft.pos = "wrapper")

\* C19 (as specified): a lookup that meets a record with zero locators (urls
\* absent or empty) or more than one returns an error: no content, and no
\* panic.
C19_BadLocatorsHardError ==
    MeetsBadLocators =>
        /\ ~rd.res.ok
        /\ rd.res.content = {}
        /\ rd.res.err # ""
        /\ ~rd.res.panic

(***************************************************************************)
(* The two routes of the Graph Walker.                                     *)
(***************************************************************************)
\* What the reader not called would have returned for the call rd records.
OtherRoute ==
    IF rd.op = "ReadBlob" THEN ReadManifest(rd.name, rd.ref, rd.down)
    ELSE ReadBlob(rd.name, rd.ref, rd.down)

\* C20: for a digest reference, ReadManifest and ReadBlob return the same
\* thing for the same name, digest and store: the same content and media
\* type, or the same failure; and from a root handle AddImage returned,
\* every blob in reach, the digest of the index, of the manifest, of the
\* config and of each layer is found by either.
C20_RoutesAgree ==
    (Readable /\ rd.op \in {"ReadBlob", "ReadManifest"} /\ IsDigest(rd.ref)) =>
        /\ OtherRoute = rd.res
        /\ (ing.pc = "done" /\ rd.name \in ing.root /\ rd.down = {}
                /\ rd.ref \in GraphDigests) => rd.res.ok

\* C20 witness: ReadManifest was called with the digest of a layer of an
\* ingested image, and returned the layer's blob.
C20_LayerByManifest ==
    /\ ReadOfRoot("ReadManifest")
    /\ ~ing.raced
    /\ \E k \in 1..Len(ing.img.layers) :
          /\ rd.ref = SHA256(LayerBlob(ing.img.layers[k]))
          /\ rd.res.ok
          /\ rd.res.content = {LayerBlob(ing.img.layers[k])}
          /\ rd.res.mt = LayerMediaType(ing.img.flavour)

(***************************************************************************)
(* Properties of the digest lookup.                                        *)
(***************************************************************************)
\* C21 (as specified): the lookup of the digest that the wrapping index
\* records for its manifest returns the decorated manifest's bytes with the
\* media type of that manifest descriptor, not that of the index.
C21_ManifestMediaType ==
    (ReadOfRoot("ReadBlob") /\ rd.down = {}
        /\ rd.ref = RootIndex.obj.manifests[1].digest) =>
        /\ rd.res.ok
        /\ rd.res.content = {RootManifest}
        /\ rd.res.mt = RootIndex.obj.manifests[1].mediaType
        /\ rd.res.mt # OCIImageIndex

\* C22 (as specified): the first node whose digest is the one asked for ends
\* the walk successfully.  For the digest of the wrapping index, which the
\* walk meets first: with the outer wrapper and the index in reach the
\* lookup returns the index, whatever else is out of reach, and the manifest
\* is not fetched.
C22_FirstMatchEndsWalk ==
    (ReadOfRoot("ReadBlob") /\ rd.ref = SHA256(RootIndex)
        /\ rd.down \cap {CidOf(RootWrapper), CidOf(RootIndex)} = {}) =>
        /\ rd.res.ok
        /\ rd.res.content = {RootIndex}
        /\ \A k \in 1..Len(rd.res.fetches) : rd.res.fetches[k] # CidOf(RootManifest)

\* A walk whose root was opened and whose first step, the decoding of the
\* root as a pointer record, returned an error.
RootStepFailed ==
    /\ Readable
    /\ rd.op = "ReadBlob" /\ rd.http = NoHttp
    /\ IsDigest(rd.ref)
    /\ CidDecode(rd.name).ok
    /\ Open(rd.name, rd.down).ok
    /\ ~Step(StoreGet(rd.name)).ok
    /\ ~Step(StoreGet(rd.name)).panic

\* C23 (as specified): a failure of the walk is returned at once.  When the
\* decoding of the root as a pointer record fails, the lookup returns that
\* error, no node is handed to the digest comparison and nothing but the
\* root has been fetched.
C23_FailureReturnedAtOnce ==
    RootStepFailed =>
        /\ ~rd.res.ok
        /\ rd.res.err = Step(StoreGet(rd.name)).err
        /\ rd.res.emits = << >>
        /\ rd.res.fetches = <<rd.name>>

(***************************************************************************)
(* Properties of the ingestion writer's failures.                          *)
(***************************************************************************)
WriterFailed == \E w \in Writers : ing.wpc[w] = "error"

\* The records of the stages after the layers: JSON objects.
StageRecords(blobs) == {b \in blobs : Has(b, "obj")}

\* C24: AddImage is fail-stop without rollback.  The step in which it
\* returns an error returns no root handle and removes no blob; after a
\* failed layer write it writes nothing more; and it never writes the outer
\* wrapper, the last record, in a call that fails.
C24_FailStopNoRollback ==
    [][(ing.pc = "layers" /\ ing'.pc = "failed") =>
          /\ ing'.root = {}
          /\ store \subseteq store'
          /\ WriterFailed => store' = store
          /\ \A b \in StageRecords(store' \ store) :
                ~(Has(b.obj, "urls") /\ Has(b.obj, "digest"))]_vars

\* C24 witness: a first ingestion failed on a layer write after another
\* layer had been written: the written layer is in the store, and no record
\* of a later stage is.
C24_LayerFailureLeavesLayers ==
    /\ ing.pc = "failed" /\ ing.n = 1
    /\ WriterFailed
    /\ \E w \in Writers : ing.wpc[w] = "done" /\ LayerBlob(ing.img.layers[w]) \in store
    /\ StageRecords(store) = {}
    /\ ing.root = {}

\* The layer descriptors of the image's manifest that the table AddImage
\* built has no entry for, the config's entry being in it.
TableLacks ==
    IF SHA256(ConfigBlob(ing.img)) \in DOMAIN ing.cidMap
    THEN Missing(Manifest(ing.img), ing.cidMap)
    ELSE {}

\* C25: when the layer writers have joined without an error and the table,
\* with the config's entry, lacks the entry of a layer descriptor, AddImage
\* fails with the error that names the first such descriptor's digest, and
\* writes no manifest, index or outer wrapper: in a first ingestion the
\* config is the only record in the store.
C25_MissingEntryFails ==
    (ing.pc \in {"done", "failed"} /\ ~WriterFailed /\ TableLacks # {}) =>
        /\ ing.pc = "failed"
        /\ ing.root = {}
        /\ ing.err.msg = "layer descriptor not found"
        /\ \E k \in TableLacks :
              /\ \A j \in TableLacks : k <= j
              /\ ing.err.ds = {Manifest(ing.img).layers[k].digest}
        /\ ing.n = 1 => StageRecords(store) = {ConfigBlob(ing.img)}

\* C25 witness: two layer writers raced and one's entry was lost; the
\* ingestion failed in convertIpfs with the config written.
C25_LostEntry ==
    /\ ing.pc = "failed" /\ ing.n = 1
    /\ ing.raced /\ ~WriterFailed
    /\ TableLacks # {}
    /\ ing.err.msg = "layer descriptor not found"
    /\ ConfigBlob(ing.img) \in store

(***************************************************************************)
(* Properties of the bootstrap.                                            *)
(***************************************************************************)
\* C26: the bootstrap initialiser is gated on peer readiness.  While the
\* store has no peers the record does not change and nothing is published
\* but by an Update; and if from some point on the store has a peer, the
\* record eventually holds the naming key, the empty Name Map being in the
\* store and a map published.
C26_GatedBootstrap ==
    /\ [][(peers = 0 /\ peers' = 0) =>
             /\ secret' = secret
             /\ ipns' # ipns => lastOp'.kind = "update"]_vars
    /\ <>[](peers > 0) => <>(secret = {SelfName} /\ EmptyMapBlob \in store /\ ipns # {})

\* C26 witness: the store has a peer and the initialiser has run: the key is
\* recorded and the empty map is the published one, no Update having run.
C26_Bootstrapped ==
    /\ peers > 0
    /\ secret = {SelfName}
    /\ ipns = {CidOf(EmptyMapBlob)}
    /\ runs = 0

(***************************************************************************)
(* Properties of the layer writers.                                        *)
(***************************************************************************)
\* C27 (as specified): the layer writers never are in the table at the
\* same time, and when they have joined without an error the table has an
\* entry for every layer digest.
C27_WritersExclusive ==
    /\ ~ing.raced
    /\ (ing.pc \in {"done", "failed"} /\ ~WriterFailed) =>
          \A w \in Writers : WriterDigest(w) \in DOMAIN ing.cidMap

(***************************************************************************)
(* Properties of the bootstrap against Updates.                            *)
(***************************************************************************)
NonEmptyPublished ==
    ipns # {} /\ StoreHas(PublishedCid) /\ DOMAIN PublishedMap # {}

\* C28 (as specified): once the key is recorded the reconciler changes
\* neither the record nor what is published, and no step replaces a
\* published Name Map that has entries by the empty one.
C28_NoEmptyAfterUpdate ==
    [][/\ secret # {} => secret' = secret
       /\ NonEmptyPublished => ipns' # {CidOf(EmptyMapBlob)}]_vars

(***************************************************************************)
(* Properties of the store.                                                *)
(***************************************************************************)
\* The CIDs the ipfs:// locators of a descriptor name.
UrlCids(desc) ==
    {UrlsOf(desc)[k][2] : k \in {j \in 1..Len(UrlsOf(desc)) : UrlsOf(desc)[j][1] = IPFSSchema}}

DescriptorsOf(o, field) ==
    IF Has(o, field) THEN {o[field][k] : k \in 1..Len(o[field])} ELSE {}

\* The CIDs the locators in a stored record name: its own, those of its
\* manifests entries, of its config and of its layers.
RecordLocators(o) ==
    UrlCids(o)
        \cup UNION {UrlCids(desc) : desc \in DescriptorsOf(o, "manifests")}
        \cup (IF Has(o, "config") THEN UrlCids(o.config) ELSE {})
        \cup UNION {UrlCids(desc) : desc \in DescriptorsOf(o, "layers")}

\* C29: in every state of the store, whatever ingestions have succeeded or
\* failed, every ipfs:// locator in a stored record names a blob of the
\* store.
C29_NoDanglingLocator ==
    \A b \in StageRecords(store) : RecordLocators(b.obj) \subseteq StoreCids

\* C29 witness: an ingestion of an image with layers failed at the index:
\* the decorated manifest is in the store, with locators, and no record
\* with a manifests list is.
C29_FailedAtIndex ==
    /\ ing.pc = "failed" /\ ing.n = 1
    /\ Len(ing.img.layers) >= 2
    /\ \E b \in StageRecords(store) :
          /\ Has(b.obj, "layers")
          /\ Cardinality(RecordLocators(b.obj)) >= 2
    /\ \A b \in StageRecords(store) : ~Has(b.obj, "manifests")

(***************************************************************************)
(* Properties of the serve command.                                        *)
(***************************************************************************)
\* Run is in its select and a goroutine has an error to report.
FailureReported ==
    srv.pc = "select" /\ \E g \in Goroutines : srv[g] = "sending"

\* C30 (as specified): when the store daemon or the HTTP listener reports
\* an error while Run waits in its select, Run eventually returns, and with
\* an error unless its context was cancelled.
C30_ReturnsOnFailure ==
    FailureReported ~> (srv.pc = "returned" /\ (srv.ctx = "live" => srv.ret = "error"))

====
